---- MODULE Spec2Model ----
(***************************************************************************)
(* A model of TelegramForwarder's forwarding filter chain                  *)
(* (filters/process.py) and of its RSS feed content synthesis              *)
(* (rss/app/services/feed_generator.py).                                   *)
(*                                                                         *)
(* Three specifications share the module:                                  *)
(*   SpecChain  process_forward_rule, run by NumTasks concurrent tasks     *)
(*   SpecTitle  FeedService.extract_telegram_title_and_content             *)
(*   SpecFeed   FeedService.generate_feed_from_entries / generate_test_feed*)
(* Strings are sequences of tokens (one-character strings, HTML tags and   *)
(* media fragments).                                                       *)
(***************************************************************************)
EXTENDS Integers, Sequences, FiniteSets, TLC

VARIABLES
    \* ---- process_forward_rule, one record per task
    chainPc,      \* task -> "new" | "chain" | "result" | "returned"
    filters,      \* task -> the FilterChain's list of filters
    pos,          \* task -> index of the next filter FilterChain.process runs
    ran,          \* task -> the stages run so far, as <<name, outcome>> pairs
    chainResult,  \* task -> "none" | "ok" | "fail": what FilterChain.process returned
    retval,       \* task -> "none" | "ok" | "fail": what process_forward_rule returned
    \* ---- extract_telegram_title_and_content
    tPc,          \* "idle" | "call" | "done"
    tContent,     \* the content argument
    tConfigOk,    \* whether title_template.json can be read
    tOut,         \* the returned (title, remainder) pair
    tPath,        \* which return statement produced it
    \* ---- generate_feed_from_entries / generate_test_feed
    fPc,          \* "idle" | "start" | "loop" | "returned" | "raised"
    fCall,        \* "entries" | "test": which function is running
    fRule,        \* the rule_id argument
    fEntries,     \* the entries argument
    fIdx,         \* index of the entry / test item the loop is at
    fg,           \* the FeedGenerator: [title, entries]
    clock,        \* the wall clock, in hours
    \* ---- convert_markdown_to_html
    rPc,          \* "idle" | "call" | "returned"
    rText,        \* the text argument
    rFault,       \* where the primary conversion raises, "none" if nowhere
    rOut          \* the returned html

chainVars == <<chainPc, filters, pos, ran, chainResult, retval>>
titleVars == <<tPc, tContent, tConfigOk, tOut, tPath>>
feedVars  == <<fPc, fCall, fRule, fEntries, fIdx, fg, clock>>
renderVars == <<rPc, rText, rFault, rOut>>
vars == <<chainVars, titleVars, feedVars, renderVars>>

\* ------------------------------------------------------------------------
\* Bounds
\* ------------------------------------------------------------------------
NumTasks == 2

Tasks == 1..NumTasks

\* ------------------------------------------------------------------------
\* Generic sequence helpers
\* ------------------------------------------------------------------------
RECURSIVE Flatten(_)
Flatten(ss) == IF ss = <<>> THEN <<>> ELSE Head(ss) \o Flatten(Tail(ss))

SeqsUpTo(S, n) == UNION {[1..k -> S] : k \in 0..n}

Range(s) == {s[k] : k \in 1..Len(s)}

\* ========================================================================
\* filters/process.py
\* ========================================================================
KeywordFilter == "KeywordFilter"
ReplaceFilter == "ReplaceFilter"
AIFilter == "AIFilter"
LinkFilter == "LinkFilter"
MediaFilter == "MediaFilter"
SenderFilter == "SenderFilter"
DeleteOriginalFilter == "DeleteOriginalFilter"

\* The filter classes process.py imports.
FilterClasses ==
    {KeywordFilter, ReplaceFilter, AIFilter, LinkFilter, MediaFilter,
     SenderFilter, DeleteOriginalFilter}

\* FilterChain(): a chain with no filters.
FilterChain == <<>>

\* FilterChain.add_filter: appends to the chain's list.
add_filter(chain, f) == Append(chain, f)

\* A chain built with delivery and cleanup exchanged.
build_filter_chain_swapped ==
    LET c1 == add_filter(FilterChain, KeywordFilter)
        c2 == add_filter(c1, ReplaceFilter)
        c3 == add_filter(c2, AIFilter)
        c4 == add_filter(c3, LinkFilter)
        c5 == add_filter(c4, MediaFilter)
        c6 == add_filter(c5, DeleteOriginalFilter)
    IN  add_filter(c6, SenderFilter)

\* A chain built without the cleanup stage and with the keyword gate twice.
build_filter_chain_dup ==
    LET c1 == add_filter(FilterChain, KeywordFilter)
        c2 == add_filter(c1, KeywordFilter)
        c3 == add_filter(c2, ReplaceFilter)
        c4 == add_filter(c3, AIFilter)
        c5 == add_filter(c4, LinkFilter)
        c6 == add_filter(c5, MediaFilter)
    IN  add_filter(c6, SenderFilter)

\* process_forward_rule, lines 29-50: the chain it assembles.
build_filter_chain ==
    LET c1 == add_filter(FilterChain, KeywordFilter)
        c2 == add_filter(c1, ReplaceFilter)
        c3 == add_filter(c2, AIFilter)
        c4 == add_filter(c3, LinkFilter)
        c5 == add_filter(c4, MediaFilter)
        c6 == add_filter(c5, SenderFilter)
    IN  add_filter(c6, DeleteOriginalFilter)

\* What a stage returns: True (continue) or False (halt).
StageOutcomes == {"continue", "halt"}

ChainInit ==
    /\ chainPc = [t \in Tasks |-> "new"]
    /\ filters = [t \in Tasks |-> <<>>]
    /\ pos = [t \in Tasks |-> 1]
    /\ ran = [t \in Tasks |-> <<>>]
    /\ chainResult = [t \in Tasks |-> "none"]
    /\ retval = [t \in Tasks |-> "none"]

ChainIdle ==
    /\ chainPc = [t \in Tasks |-> "idle"]
    /\ filters = [t \in Tasks |-> <<>>]
    /\ pos = [t \in Tasks |-> 1]
    /\ ran = [t \in Tasks |-> <<>>]
    /\ chainResult = [t \in Tasks |-> "none"]
    /\ retval = [t \in Tasks |-> "none"]

\* process_forward_rule up to its await: the chain is assembled and
\* FilterChain.process is entered.
process_forward_rule_build(t) ==
    /\ chainPc[t] = "new"
    /\ filters' = [filters EXCEPT ![t] = build_filter_chain]
    /\ pos' = [pos EXCEPT ![t] = 1]
    /\ chainPc' = [chainPc EXCEPT ![t] = "chain"]
    /\ UNCHANGED <<ran, chainResult, retval, titleVars, feedVars, renderVars>>

\* FilterChain.process, one iteration: the next filter is awaited; halt
\* returns False at once, continue advances.
filter_chain_process_stage(t) ==
    /\ chainPc[t] = "chain"
    /\ pos[t] <= Len(filters[t])
    /\ \E outcome \in StageOutcomes :
        /\ ran' = [ran EXCEPT ![t] = Append(@, <<filters[t][pos[t]], outcome>>)]
        /\ IF outcome = "halt"
              THEN /\ chainResult' = [chainResult EXCEPT ![t] = "fail"]
                   /\ chainPc' = [chainPc EXCEPT ![t] = "result"]
                   /\ pos' = pos
              ELSE /\ pos' = [pos EXCEPT ![t] = @ + 1]
                   /\ UNCHANGED <<chainResult, chainPc>>
    /\ UNCHANGED <<filters, retval, titleVars, feedVars, renderVars>>

\* FilterChain.process, after the last filter: returns True.
filter_chain_process_end(t) ==
    /\ chainPc[t] = "chain"
    /\ pos[t] > Len(filters[t])
    /\ chainResult' = [chainResult EXCEPT ![t] = "ok"]
    /\ chainPc' = [chainPc EXCEPT ![t] = "result"]
    /\ UNCHANGED <<filters, pos, ran, retval, titleVars, feedVars, renderVars>>

\* process_forward_rule, lines 53-55: returns the chain's result.
process_forward_rule_return(t) ==
    /\ chainPc[t] = "result"
    /\ retval' = [retval EXCEPT ![t] = chainResult[t]]
    /\ chainPc' = [chainPc EXCEPT ![t] = "returned"]
    /\ UNCHANGED <<filters, pos, ran, chainResult, titleVars, feedVars, renderVars>>

TitleIdle ==
    /\ tPc = "idle"
    /\ tContent = <<>>
    /\ tConfigOk = TRUE
    /\ tOut = <<>>
    /\ tPath = "none"

FeedIdle ==
    /\ fPc = "idle"
    /\ fCall = "none"
    /\ fRule = 0
    /\ fEntries = <<>>
    /\ fIdx = 0
    /\ fg = [title |-> "", entries |-> <<>>]
    /\ clock = 0

RenderIdle ==
    /\ rPc = "idle"
    /\ rText = <<>>
    /\ rFault = "none"
    /\ rOut = <<>>

InitChain == ChainInit /\ TitleIdle /\ FeedIdle /\ RenderIdle

NextChain ==
    \E t \in Tasks :
        \/ process_forward_rule_build(t)
        \/ filter_chain_process_stage(t)
        \/ filter_chain_process_end(t)
        \/ process_forward_rule_return(t)

SpecChain == InitChain /\ [][NextChain]_vars

AllContinued(t) ==
    /\ Len(ran[t]) = Cardinality(FilterClasses)
    /\ \A c \in FilterClasses :
          Cardinality({k \in 1..Len(ran[t]) : ran[t][k] = <<c, "continue">>}) = 1

HaltedAt(t, k) == k \in 1..Len(ran[t]) /\ ran[t][k][2] = "halt"

\* ------------------------------------------------------------------------
\* C1: in every run of process_forward_rule the stages run in list order
\* from the first one; a stage that returns halt is the last stage run and
\* the chain reports failure; the chain reports success exactly when every
\* filter class has run once and returned continue.
\* ------------------------------------------------------------------------
C1_ChainShortCircuits ==
    \A t \in Tasks :
        /\ \A k \in 1..Len(ran[t]) :
              k <= Len(filters[t]) /\ ran[t][k][1] = filters[t][k]
        /\ \A k \in 1..Len(ran[t]) :
              HaltedAt(t, k) =>
                  /\ k = Len(ran[t])
                  /\ chainPc[t] \in {"result", "returned"}
                  /\ chainResult[t] = "fail"
        /\ chainResult[t] = "ok" => AllContinued(t)
        /\ (chainPc[t] \in {"result", "returned"} /\ AllContinued(t))
              => chainResult[t] = "ok"
        /\ chainPc[t] = "returned" => retval[t] = chainResult[t]

\* One task was halted by its third stage and reported failure, another ran
\* the whole chain and reported success.
C1_Witness ==
    \E t, u \in Tasks :
        /\ retval[t] = "fail" /\ HaltedAt(t, 3)
        /\ retval[u] = "ok" /\ Len(ran[u]) = 7

Upstream == <<KeywordFilter, ReplaceFilter, AIFilter, LinkFilter, MediaFilter>>

\* ------------------------------------------------------------------------
\* C2: SenderFilter runs only after KeywordFilter, ReplaceFilter, AIFilter,
\* LinkFilter and MediaFilter have run in that order and each returned
\* continue; DeleteOriginalFilter runs only after SenderFilter has run and
\* returned continue.
\* ------------------------------------------------------------------------
C2_DeliveryThenCleanupLast ==
    \A t \in Tasks : \A k \in 1..Len(ran[t]) :
        /\ ran[t][k][1] = SenderFilter =>
              /\ k = Len(Upstream) + 1
              /\ \A j \in 1..Len(Upstream) : ran[t][j] = <<Upstream[j], "continue">>
        /\ ran[t][k][1] = DeleteOriginalFilter =>
              \E j \in 1..(k - 1) :
                  /\ ran[t][j] = <<SenderFilter, "continue">>
                  /\ \A i \in 1..Len(Upstream) : ran[t][i] = <<Upstream[i], "continue">>

\* A task has run the cleanup stage (after delivery), and another task was
\* halted by the delivery stage, so that its cleanup never runs.
C2_Witness ==
    \E t, u \in Tasks :
        /\ Len(ran[t]) = 7 /\ ran[t][7][1] = DeleteOriginalFilter
        /\ Len(ran[u]) = 6 /\ ran[u][6] = <<SenderFilter, "halt">>
        /\ chainPc[u] = "returned"

\* ========================================================================
\* rss/app/services/feed_generator.py: title extraction
\* ========================================================================
\* The characters \s matches, among those the model's strings are made of.
Whitespace == {" ", "\n"}

Min(a, b) == IF a < b THEN a ELSE b

DropFirst(s, n) == SubSeq(s, n + 1, Len(s))

\* Number of leading elements of s that are in S.
RECURSIVE LeadingRun(_, _)
LeadingRun(s, S) ==
    IF s # <<>> /\ Head(s) \in S THEN 1 + LeadingRun(Tail(s), S) ELSE 0

\* Number of trailing elements of s that are in S.
RECURSIVE TrailingRun(_, _)
TrailingRun(s, S) ==
    IF s # <<>> /\ s[Len(s)] \in S
        THEN 1 + TrailingRun(SubSeq(s, 1, Len(s) - 1), S)
        ELSE 0

\* str.lstrip() and str.strip().
lstrip(s) == DropFirst(s, LeadingRun(s, Whitespace))
strip(s) == LET l == lstrip(s) IN SubSeq(l, 1, Len(l) - TrailingRun(l, Whitespace))

\* str.replace(old, new) for a one-character old.
replace_char(s, old, new) ==
    Flatten([k \in 1..Len(s) |-> IF s[k] = old THEN new ELSE <<s[k]>>])

\* re.sub(r'^\*{1,2}\s*', '', content): one or two leading asterisks and the
\* whitespace after them.
strip_leading_stars(s) ==
    IF s = <<>> \/ Head(s) # "*" THEN s
    ELSE LET stars == Min(2, LeadingRun(s, {"*"}))
         IN  lstrip(DropFirst(s, stars))

\* re.sub(r'^\s*\n+', '', content): the leading whitespace up to and
\* including its last line break, when it holds one.
strip_leading_blank_lines(s) ==
    LET w == LeadingRun(s, Whitespace)
        breaks == {k \in 1..w : s[k] = "\n"}
    IN  IF breaks = {} THEN s
        ELSE DropFirst(s, CHOOSE k \in breaks : \A j \in breaks : j <= k)

\* FeedService.clean_content
clean_content(content) ==
    IF content = <<>> THEN <<>>
    ELSE strip_leading_blank_lines(strip_leading_stars(content))

\* re.sub(r'\[([^\]]+)\]\([^)]+\)', r'\1', title): [text](url) becomes text.
RECURSIVE rewrite_links(_)
rewrite_links(s) ==
    IF s = <<>> THEN <<>>
    ELSE LET closes == {j \in 3..Len(s) : s[j] = "]" /\ \A i \in 2..(j - 1) : s[i] # "]"}
             j == CHOOSE x \in closes : TRUE
             ends == {k \in (j + 3)..Len(s) :
                         s[k] = ")" /\ \A i \in (j + 2)..(k - 1) : s[i] # ")"}
             k == CHOOSE x \in ends : TRUE
         IN  IF Head(s) = "[" /\ closes # {} /\ j + 1 <= Len(s) /\ s[j + 1] = "("
                  /\ ends # {}
             THEN SubSeq(s, 2, j - 1) \o rewrite_links(DropFirst(s, k))
             ELSE <<Head(s)>> \o rewrite_links(Tail(s))

\* FeedService.clean_title
clean_title(title) ==
    IF title = <<>> THEN <<>>
    ELSE strip(replace_char(rewrite_links(replace_char(title, "*", <<>>)),
                            "\n", <<" ">>))

\* The title patterns of configs/title_template.json, in order: the model
\* configures one pattern, ^\*\*(.+?)\*\* (a bold first line), the pattern
\* of the design document's scenario.
TitlePatterns == <<"bold">>

\* pattern.match(content) for ^\*\*(.+?)\*\*: the span of group 1 and the end
\* of the match, or no match. (.+?) takes the fewest characters, none of
\* them a line break.
pattern_match(pattern, content) ==
    LET ends == {e \in 5..Len(content) :
                    /\ content[e - 1] = "*" /\ content[e] = "*"
                    /\ \A i \in 3..(e - 2) : content[i] # "\n"}
    IN  IF pattern = "bold" /\ Len(content) >= 5
            /\ content[1] = "*" /\ content[2] = "*" /\ ends # {}
        THEN LET e == CHOOSE x \in ends : \A y \in ends : x <= y
             IN  [matched |-> TRUE, group1 |-> SubSeq(content, 3, e - 2), end |-> e]
        ELSE [matched |-> FALSE, group1 |-> <<>>, end |-> 0]

\* The length the default title is cut to (line 69).
TitleLimit == 20

Ellipsis == <<".", ".", ".">>

\* A default title that always carries the ellipsis.
default_title_always_ellipsis(content) ==
    LET clean == strip(replace_char(clean_content(content), "\n", <<" ">>))
    IN  SubSeq(clean, 1, Min(TitleLimit, Len(clean))) \o Ellipsis

\* Lines 67-71: the title when no pattern matches.
default_title(content) ==
    LET clean == strip(replace_char(clean_content(content), "\n", <<" ">>))
        title == SubSeq(clean, 1, Min(TitleLimit, Len(clean)))
    IN  IF Len(clean) > TitleLimit THEN title \o Ellipsis ELSE title

\* Line 73: the remainder when no pattern matches.
default_remainder(content) == content

\* FeedService.extract_telegram_title_and_content: [title, rest, path], path
\* naming the return statement taken.
extract_telegram_title_and_content(content, configOk) ==
    IF content = <<>> THEN [title |-> <<>>, rest |-> <<>>, path |-> "empty"]
    ELSE IF ~configOk THEN [title |-> <<>>, rest |-> content, path |-> "except"]
    ELSE LET hits == {p \in 1..Len(TitlePatterns) :
                          pattern_match(TitlePatterns[p], content).matched}
         IN  IF hits # {}
             THEN LET p == CHOOSE x \in hits : \A y \in hits : x <= y
                      m == pattern_match(TitlePatterns[p], content)
                  IN  [title |-> clean_title(m.group1),
                       rest |-> lstrip(DropFirst(content, m.end)),
                       path |-> "match"]
             ELSE [title |-> default_title(content),
                   rest |-> default_remainder(content),
                   path |-> "nomatch"]

\* The characters of the contents the title specification draws from.
TitleChars == {"a", " ", "\n", "*"}

\* Longest prefix and suffix put around a run of letters.
MaxAffix == 2
\* How far past TitleLimit the runs of letters go.
MaxOver == 2

Letters(n) == [k \in 1..n |-> "a"]

RunLens == {0} \cup ((TitleLimit - 3)..(TitleLimit + MaxOver))

TitleContents ==
    {pre \o Letters(n) \o suf :
        pre \in SeqsUpTo(TitleChars, MaxAffix),
        suf \in SeqsUpTo(TitleChars, MaxAffix),
        n \in RunLens}

InitTitle ==
    /\ ChainIdle
    /\ FeedIdle
    /\ RenderIdle
    /\ tPc = "call"
    /\ tContent \in TitleContents
    /\ tConfigOk \in BOOLEAN
    /\ tOut = <<>>
    /\ tPath = "none"

\* One call of extract_telegram_title_and_content.
extract_call ==
    /\ tPc = "call"
    /\ LET r == extract_telegram_title_and_content(tContent, tConfigOk)
       IN  /\ tOut' = <<r.title, r.rest>>
           /\ tPath' = r.path
    /\ tPc' = "done"
    /\ UNCHANGED <<tContent, tConfigOk, chainVars, feedVars, renderVars>>

NextTitle == extract_call

SpecTitle == InitTitle /\ [][NextTitle]_vars

Collapsed(content) == strip(replace_char(clean_content(content), "\n", <<" ">>))

\* ------------------------------------------------------------------------
\* C10: for non-empty content that matches no configured pattern the title
\* is at most 23 characters long: the first 20 characters of the cleaned,
\* newline-collapsed, trimmed content, followed by "..." exactly when that
\* cleaned content is longer than 20 characters; the remainder is the
\* original content. Empty content gives ("", "").
\* ------------------------------------------------------------------------
C10_DefaultTitle ==
    tPc = "done" =>
        /\ tContent = <<>> => tOut = <<<<>>, <<>>>>
        /\ tPath = "nomatch" =>
              LET title == tOut[1]
                  clean == Collapsed(tContent)
                  cut == Min(20, Len(clean))
              IN  /\ Len(title) <= 23
                  /\ SubSeq(title, 1, Min(cut, Len(title))) = SubSeq(clean, 1, cut)
                  /\ Len(clean) > 20 => title = SubSeq(clean, 1, 20) \o <<".", ".", ".">>
                  /\ Len(clean) <= 20 => title = clean
                  /\ "\n" \notin Range(SubSeq(clean, 1, cut))
                  /\ tOut[2] = tContent

\* A content with leading asterisks and a blank line whose cleaned form is
\* longer than 20 characters got a 23-character title and was returned whole.
C10_Witness ==
    /\ tPc = "done" /\ tPath = "nomatch"
    /\ Head(tContent) = "*" /\ "\n" \in Range(tContent)
    /\ Len(Collapsed(tContent)) > 20
    /\ Len(tOut[1]) = 23
    /\ tOut[2] = tContent /\ tOut[2] # clean_content(tContent)

\* ========================================================================
\* rss/app/services/feed_generator.py: rendering
\* ========================================================================
\* The paragraph sentinel of line 360, one token.
Sentinel == "<!-- paragraph -->"

\* str.split(sep) for a one-character separator.
RECURSIVE split(_, _)
split(s, sep) ==
    LET at == {k \in 1..Len(s) : s[k] = sep}
    IN  IF at = {} THEN <<s>>
        ELSE LET k == CHOOSE x \in at : \A y \in at : x <= y
             IN  <<SubSeq(s, 1, k - 1)>> \o split(DropFirst(s, k), sep)

\* str.split("\n\n")
RECURSIVE split_paragraphs(_)
split_paragraphs(s) ==
    LET at == {k \in 1..(Len(s) - 1) : s[k] = "\n" /\ s[k + 1] = "\n"}
    IN  IF at = {} THEN <<s>>
        ELSE LET k == CHOOSE x \in at : \A y \in at : x <= y
             IN  <<SubSeq(s, 1, k - 1)>> \o split_paragraphs(DropFirst(s, k + 1))

\* sep.join(parts)
RECURSIVE join(_, _)
join(parts, sep) ==
    IF parts = <<>> THEN <<>>
    ELSE IF Len(parts) = 1 THEN parts[1]
    ELSE parts[1] \o sep \o join(Tail(parts), sep)

\* re.sub(r'\n{2,}', repl, text): every maximal run of two or more line
\* breaks becomes repl.
RECURSIVE sub_blank_runs(_, _)
sub_blank_runs(s, repl) ==
    IF s = <<>> THEN <<>>
    ELSE LET r == LeadingRun(s, {"\n"})
         IN  IF r >= 2 THEN repl \o sub_blank_runs(DropFirst(s, r), repl)
             ELSE <<Head(s)>> \o sub_blank_runs(Tail(s), repl)

\* Line 360: the runs of line breaks get the sentinel.
mark_paragraphs(text) ==
    sub_blank_runs(text, <<"\n", "\n", Sentinel, "\n", "\n">>)

\* Lines 366-368: a line that starts with # is escaped, and every line gets
\* two trailing spaces.
process_line(line) ==
    (IF line # <<>> /\ line[1] = "#" THEN <<"\\">> \o line ELSE line) \o <<" ", " ">>

\* Lines 363-369
process_lines(text) ==
    LET lines == split(text, "\n")
    IN  join([k \in 1..Len(lines) |-> process_line(lines[k])], <<"\n">>)

IsBlank(s) == \A k \in 1..Len(s) : s[k] \in Whitespace

\* python-markdown's backslash escape of a heading marker.
RECURSIVE md_inline(_)
md_inline(s) ==
    IF s = <<>> THEN <<>>
    ELSE IF Len(s) >= 2 /\ s[1] = "\\" /\ s[2] = "#" THEN <<"#">> \o md_inline(DropFirst(s, 2))
    ELSE <<Head(s)>> \o md_inline(Tail(s))

\* python-markdown's paragraph: the lines of a block, a line that ends with
\* two spaces broken with <br />.
RECURSIVE md_paragraph_lines(_)
md_paragraph_lines(para) ==
    IF Len(para) = 1 THEN md_inline(strip(para[1]))
    ELSE md_inline(strip(para[1]))
         \o (IF TrailingRun(para[1], {" "}) >= 2 THEN <<"<br />", "\n">> ELSE <<"\n">>)
         \o md_paragraph_lines(Tail(para))

md_close(para) ==
    IF para = <<>> THEN <<>> ELSE << <<"<p>">> \o md_paragraph_lines(para) \o <<"</p>">> >>

\* python-markdown's blocks: blank lines separate paragraphs; a comment or a
\* raw <p></p> at the start of a line is a raw HTML block, emitted as it is;
\* a line that starts with # is a heading.
RECURSIVE md_blocks(_, _)
md_blocks(lines, para) ==
    IF lines = <<>> THEN md_close(para)
    ELSE LET line == Head(lines)
             body == lstrip(line)
         IN  IF IsBlank(line) THEN md_close(para) \o md_blocks(Tail(lines), <<>>)
             ELSE IF body[1] = Sentinel
                 THEN md_close(para) \o << <<Sentinel>> >>
                      \o md_blocks(<<DropFirst(body, 1)>> \o Tail(lines), <<>>)
             ELSE IF Len(body) >= 2 /\ body[1] = "<p>" /\ body[2] = "</p>"
                 THEN md_close(para) \o << <<"<p>", "</p>">> >>
                      \o md_blocks(<<DropFirst(body, 2)>> \o Tail(lines), <<>>)
             ELSE IF line[1] = "#"
                 THEN md_close(para)
                      \o << <<"<h1>">> \o md_inline(strip(DropFirst(line, LeadingRun(line, {"#"}))))
                            \o <<"</h1>">> >>
                      \o md_blocks(Tail(lines), <<>>)
             ELSE md_blocks(Tail(lines), Append(para, line))

\* markdown.markdown(text, extensions=['extra']), on the model's tokens.
markdown(text) ==
    IF IsBlank(text) THEN <<>>
    ELSE join(md_blocks(split(text, "\n"), <<>>), <<"\n">>)

\* str.replace(old, new) for a three-token old.
RECURSIVE replace3(_, _, _)
replace3(s, old, new) ==
    IF Len(s) < 3 THEN s
    ELSE IF SubSeq(s, 1, 3) = old THEN new \o replace3(DropFirst(s, 3), old, new)
    ELSE <<Head(s)>> \o replace3(Tail(s), old, new)

\* Line 375
restore_paragraphs(html) ==
    replace3(html, <<"<p>", Sentinel, "</p>">>, <<"</p>", "<p>">>)

\* Lines 383-388: the fallback rendering of whatever text holds.
fallback_html(text) ==
    <<"<p>">>
    \o replace_char(sub_blank_runs(text, <<"</p>", "<p>">>), "\n", <<"<br>">>)
    \o <<"</p>">>

\* Where the primary conversion can raise: nowhere, at line 360 (text not
\* yet reassigned), in lines 363-369 (text holds the sentinels), or in
\* markdown.markdown (text holds the preprocessed text).
MdFaults == {"none", "sub", "lines", "convert"}

\* FeedService.convert_markdown_to_html
convert_markdown_to_html(text, fault) ==
    IF text = <<>> THEN <<>>
    ELSE IF fault = "sub" THEN fallback_html(text)
    ELSE IF fault = "lines" THEN fallback_html(mark_paragraphs(text))
    ELSE IF fault = "convert" THEN fallback_html(process_lines(mark_paragraphs(text)))
    ELSE restore_paragraphs(markdown(process_lines(mark_paragraphs(text))))

\* ---- lines 252-276: placeholder, re-wrap and normalisation
NoTextSentence == "no-text-sentence"
CountSentence(n) == "media-count-sentence " \o ToString(n)

\* Lines 253-256
placeholder_if_empty(content, nMedia) ==
    IF content # <<>> THEN content
    ELSE <<"<p>", NoTextSentence, "</p>">>
         \o (IF nMedia > 0 THEN <<"<p>", CountSentence(nMedia), "</p>">> ELSE <<>>)

\* Lines 266-270: one paragraph of the re-wrap.
RECURSIVE rewrap_lines(_)
rewrap_lines(lines) ==
    IF lines = <<>> THEN <<>>
    ELSE (IF strip(Head(lines)) # <<>> THEN <<"<br>">> \o Head(lines) ELSE <<>>)
         \o rewrap_lines(Tail(lines))

rewrap_paragraph(p) ==
    IF strip(p) = <<>> THEN <<>>
    ELSE LET lines == split(p, "\n")
         IN  <<"<p>">> \o lines[1] \o rewrap_lines(Tail(lines)) \o <<"</p>">>

\* Lines 261-271
rewrap(content) ==
    LET paragraphs == split_paragraphs(content)
        processed == Flatten([k \in 1..Len(paragraphs) |-> rewrap_paragraph(paragraphs[k])])
    IN  IF processed # <<>> THEN processed ELSE <<"<p>">> \o content \o <<"</p>">>

\* re.sub(r'<br>\s*<br>', '<br>', content)
RECURSIVE sub_br_br(_)
sub_br_br(s) ==
    IF s = <<>> THEN <<>>
    ELSE LET w == LeadingRun(Tail(s), Whitespace)
         IN  IF Head(s) = "<br>" /\ Len(s) >= w + 2 /\ s[w + 2] = "<br>"
             THEN <<"<br>">> \o sub_br_br(DropFirst(s, w + 2))
             ELSE <<Head(s)>> \o sub_br_br(Tail(s))

\* re.sub(r'<p>\s*</p>', '', content)
RECURSIVE sub_empty_p(_)
sub_empty_p(s) ==
    IF s = <<>> THEN <<>>
    ELSE LET w == LeadingRun(Tail(s), Whitespace)
         IN  IF Head(s) = "<p>" /\ Len(s) >= w + 2 /\ s[w + 2] = "</p>"
             THEN sub_empty_p(DropFirst(s, w + 2))
             ELSE <<Head(s)>> \o sub_empty_p(Tail(s))

\* re.sub(r'<p><br></p>', '<p></p>', content)
sub_p_br_p(s) == replace3(s, <<"<p>", "<br>", "</p>">>, <<"<p>", "</p>">>)

\* Lines 274-276
normalize(content) == sub_p_br_p(sub_empty_p(sub_br_br(content)))

\* ========================================================================
\* rss/app/services/feed_generator.py: media, entries and feeds
\* ========================================================================
\* An attribute the object does not have (hasattr is False).
Missing == "<missing>"

\* base_url of lines 144 and 409, from settings.HOST and settings.PORT.
base_url == "http://host:port"

\* Line 169: os.path.basename(media.url.split('/')[-1]); a url is the
\* sequence of its /-separated segments.
media_filename(url) == url[Len(url)]

\* Lines 170-171 and 284
full_media_url(rule_id, filename) ==
    base_url \o "/media/" \o ToString(rule_id) \o "/" \o filename

\* media.type.startswith('image/') and so on.
MediaKind(type) ==
    CASE type = "image/jpeg" -> "image"
      [] type = "video/mp4" -> "video"
      [] type = "audio/mpeg" -> "audio"
      [] OTHER -> "file"

\* The tokens of the fragments that carry a media URL.
Img3(u) == "<img src=" \o u \o " display:block />"
Img7(u) == "<img src=" \o u \o " />"
Source(u) == "<source src=" \o u \o ">"
Download(u) == "<a href=" \o u \o ">download</a>"
Anchor(u) == "<a href=" \o u \o ">"
\* The URL written out in the message text.
UrlText(u) == u

\* Line 182 and line 289
img_tag(u) == <<"<p>", Img3(u), "</p>">>
missing_img_tag(u) == <<"<p>", Img7(u), "</p>">>

Indent == " "

\* Lines 197-207 and 220-230: the player blocks, one token a line, each
\* line indented; the literal starts and ends with a line break.
player(element, u) ==
    <<"\n", Indent, "<div>", "\n", Indent, "<" \o element \o ">", "\n", Indent, Source(u),
      "\n", Indent, "unsupported-text", "\n", Indent, "</" \o element \o ">",
      "\n", Indent, "<p style>", "\n", Indent, Download(u),
      "\n", Indent, "</p>", "\n", Indent, "</div>", "\n", Indent>>

video_player(u) == player("video", u)
audio_player(u) == player("audio", u)

\* Lines 243-249
file_tag(u) ==
    <<"\n", Indent, "<div>", "\n", Indent, Anchor(u), "\n", Indent, "download-text",
      "\n", Indent, "</a>", "\n", Indent, "</div>", "\n", Indent>>

\* full_media_url in content
contains_url(content, u) ==
    \E k \in 1..Len(content) :
        content[k] \in {Img3(u), Img7(u), Source(u), Download(u), Anchor(u), UrlText(u)}

\* The rule ids, the stored media paths and the media URLs of the model.
RuleIds == {7}
MediaUrls == {<<"store", "a.jpg">>, <<"b.mp4">>}
AllUrls == {full_media_url(r, media_filename(url)) : r \in RuleIds, url \in MediaUrls}

\* Tokens that are text: everything else starts with "<".
TextTokens ==
    {"a", " ", "\n", "#", "\\", "*", NoTextSentence, "unsupported-text", "download-text"}
    \cup {UrlText(u) : u \in AllUrls}

\* content.startswith("<")
starts_with_angle(content) == content # <<>> /\ content[1] \notin TextTokens

\* Lines 165-250: the first embedding pass. ok is FALSE when media.type has
\* no startswith (line 175 raises, outside the inner try).
RECURSIVE embed_media(_, _, _)
embed_media(content, media, rule_id) ==
    IF media = <<>> THEN [content |-> content, ok |-> TRUE]
    ELSE LET m == Head(media)
             u == full_media_url(rule_id, media_filename(m.url))
             kind == MediaKind(m.type)
         IN  IF m.type = Missing THEN [content |-> content, ok |-> FALSE]
             ELSE embed_media(
                    CASE kind = "image" ->
                            \* lines 176-187: settings.get_rule_media_path may raise
                            IF m.pathFault THEN content ELSE content \o img_tag(u)
                      [] kind = "video" -> content \o video_player(u)
                      [] kind = "audio" -> content \o audio_player(u)
                      [] OTHER -> content \o file_tag(u),
                    Tail(media), rule_id)

\* Line 299
enclosure_length(m) == IF m.size # Missing THEN m.size ELSE "0"
\* Line 300
enclosure_type(m) == IF m.type # Missing THEN m.type ELSE "application/octet-stream"

\* Line 287
needs_img(content, m, u) == MediaKind(m.type) = "image" /\ ~contains_url(content, u)

\* Lines 279-303: the re-scan pass. Each item: the missing image, the log
\* line (which reads media.size) and the enclosure, inside one try.
RECURSIVE attach_media(_, _, _, _)
attach_media(content, enclosures, media, rule_id) ==
    IF media = <<>> THEN [content |-> content, enclosures |-> enclosures]
    ELSE LET m == Head(media)
             u == full_media_url(rule_id, media_filename(m.url))
             c1 == IF needs_img(content, m, u) THEN content \o missing_img_tag(u)
                   ELSE content
         IN  IF m.size = Missing
             THEN \* line 294 raises AttributeError; lines 302-303 log it
                  attach_media(c1, enclosures, Tail(media), rule_id)
             ELSE attach_media(c1,
                    Append(enclosures, [url |-> u, length |-> enclosure_length(m),
                                        type |-> enclosure_type(m)]),
                    Tail(media), rule_id)

\* datetime.fromisoformat on the strings the model draws from: an instant
\* in hours and whether the string carries an offset; ok is FALSE for
\* ValueError.
fromisoformat(str) ==
    CASE str = "2024-01-01T00:00:00" -> [ok |-> TRUE, t |-> 50, tz |-> FALSE]
      [] str = "2024-01-01T00:00:00+00:00" -> [ok |-> TRUE, t |-> 50, tz |-> TRUE]
      [] OTHER -> [ok |-> FALSE, t |-> 0, tz |-> FALSE]

PublishedStrings == {"2024-01-01T00:00:00", "2024-01-01T00:00:00+00:00", "not-a-date"}

\* feedgen's FeedEntry.published(dt): a datetime without tzinfo raises
\* ValueError.
published_accepts(dt) == dt.tz

\* Lines 312-317: both fromisoformat and fe.published are inside the try, so
\* either ValueError gives datetime.now(settings.DEFAULT_TIMEZONE).
published_time(str, now) ==
    LET p == fromisoformat(str)
    IN  IF p.ok /\ published_accepts([t |-> p.t, tz |-> p.tz])
        THEN [t |-> p.t, tz |-> p.tz]
        ELSE [t |-> now, tz |-> TRUE]

\* A fresh FeedEntry; a field is <<>> until it is set, <<value>> after.
new_entry(src) ==
    [src |-> src, id |-> <<>>, title |-> <<>>, content |-> <<>>, description |-> <<>>,
     published |-> <<>>, author |-> <<>>, link |-> <<>>, enclosures |-> <<>>]

\* The steps of one iteration where an exception can reach line 325.
FaultSteps == {"id", "title", "render", "media", "content", "timestamp", "author", "link"}

\* Lines 259-271: a body that does not start with "<" is re-wrapped.
rewrap_if_text(content) ==
    IF ~starts_with_angle(content) THEN rewrap(content) ELSE content

\* Lines 160-276: the body before the re-scan.
entry_body(e, rest) ==
    LET embedded == embed_media(convert_markdown_to_html(rest, e.mdFault), e.media, e.rule_id)
    IN  [ok |-> embedded.ok,
         content |-> normalize(rewrap_if_text(
                        placeholder_if_empty(embedded.content, Len(e.media))))]

\* Line 152
set_id(fe, e) == [fe EXCEPT !.id = <<IF e.id # "" THEN e.id ELSE e.message_id>>]
\* Line 156
set_title(fe, title) == [fe EXCEPT !.title = <<title>>]
\* Line 301: the enclosures the re-scan added.
set_enclosures(fe, enclosures) == [fe EXCEPT !.enclosures = enclosures]
\* Lines 306 and 309
set_content(fe, content) == [fe EXCEPT !.content = <<content>>, !.description = <<content>>]
\* Lines 312-317
set_published(fe, e, now) == [fe EXCEPT !.published = <<published_time(e.published, now)>>]
\* Lines 320-321
set_author(fe, e) == IF e.author # "" THEN [fe EXCEPT !.author = <<e.author>>] ELSE fe
\* Lines 323-324
set_link(fe, e) == IF e.link # <<>> THEN [fe EXCEPT !.link = <<e.link>>] ELSE fe

\* The n-th setter of one iteration, in the order of lines 152-324.
apply_setter(n, fe, e, now, title, att) ==
    CASE n = 1 -> set_id(fe, e)
      [] n = 2 -> set_title(fe, title)
      [] n = 3 -> set_enclosures(fe, att.enclosures)
      [] n = 4 -> set_content(fe, att.content)
      [] n = 5 -> set_published(fe, e, now)
      [] n = 6 -> set_author(fe, e)
      [] OTHER -> set_link(fe, e)

\* The FeedEntry of line 151 after the first n setters.
RECURSIVE entry_after(_, _, _, _, _, _)
entry_after(n, e, src, now, title, att) ==
    IF n = 0 THEN new_entry(src)
    ELSE apply_setter(n, entry_after(n - 1, e, src, now, title, att), e, now, title, att)

\* How many setters ran before an exception reached line 325; e.faultAt
\* names the step at which a call raises ("none": no call does), and the
\* media step also raises when media.type has no startswith (line 175).
completed_setters(e, bodyOk) ==
    CASE e.faultAt = "id" -> 0
      [] e.faultAt = "title" -> 1
      [] e.faultAt \in {"render", "media"} \/ ~bodyOk -> 2
      [] e.faultAt = "content" -> 3
      [] e.faultAt = "timestamp" -> 4
      [] e.faultAt = "author" -> 5
      [] e.faultAt = "link" -> 6
      [] OTHER -> 7

\* Lines 279-327: the iteration from the re-scan on.
build_from_body(e, src, now, title, body) ==
    LET n == completed_setters(e, body.ok)
    IN  [fe |-> entry_after(n, e, src, now, title,
                            attach_media(body.content, <<>>, e.media, e.rule_id)),
         faulted |-> n < 7]

\* Lines 151-327, one iteration of the loop: the FeedEntry as the iteration
\* leaves it, and whether line 325 caught an exception.
build_entry(e, src, now) ==
    LET ex == extract_telegram_title_and_content(e.content, TRUE)
    IN  build_from_body(e, src, now, ex.title, entry_body(e, ex.rest))

\* FeedService._extract_chat_name; a link is a sequence of tokens, "t.me/"
\* and "/" among them.
extract_chat_name(link) ==
    LET at == {k \in 1..Len(link) : link[k] = "t.me/"}
    IN  IF link = <<>> \/ at = {} THEN <<>>
        ELSE LET k == CHOOSE x \in at : \A y \in at : x <= y
                 part == split(DropFirst(link, k), "t.me/")[1]
             IN  split(part, "/")[1]

\* Lines 133-141
feed_title(rule_id, entries) ==
    IF entries # <<>>
    THEN LET chat_name == extract_chat_name(entries[1].link)
         IN  <<"TG Forwarder - ">>
             \o (IF chat_name # <<>> THEN chat_name ELSE <<"Rule ", ToString(rule_id)>>)
    ELSE <<"TG Forwarder RSS - Rule ", ToString(rule_id)>>

\* feedgen's FeedGenerator.add_entry(): the new entry goes first
\* (order='prepend').
add_entry(feed, fe) == [feed EXCEPT !.entries = <<fe>> \o @]

\* The loop stops at the first entry that faults.
next_index_break(i, faulted, n) == IF faulted THEN n + 1 ELSE i + 1

\* Lines 325-327: the handler continues with the next entry.
next_index(i, faulted, n) == i + 1

\* Line 414: range(1, 4)
NumTestEntries == 3

\* Lines 414-440: the loop of generate_test_feed from item i on. The
\* published time is datetime.now() - timedelta(hours=i), without tzinfo.
RECURSIVE test_entries(_, _, _, _)
test_entries(feed, i, rule_id, now) ==
    IF i > NumTestEntries THEN [fg |-> feed, raised |-> FALSE]
    ELSE LET entry_id == "test-" \o ToString(rule_id) \o "-" \o ToString(i)
             dt == [t |-> now - i, tz |-> FALSE]
             fe0 == [new_entry(i) EXCEPT
                        !.id = <<entry_id>>,
                        !.title = << <<"test-title ", ToString(i)>> >>,
                        !.content = << <<"<p>", "test-text", "</p>">> >>,
                        !.description = << <<"<p>", "test-text", "</p>">> >>]
             fe1 == [fe0 EXCEPT
                        !.published = <<dt>>,
                        !.author = <<"TG Forwarder System">>,
                        !.link = << <<"entry-link", entry_id>> >>]
         IN  IF ~published_accepts(dt)
             THEN [fg |-> add_entry(feed, fe0), raised |-> TRUE]
             ELSE test_entries(add_entry(feed, fe1), i + 1, rule_id, now)

\* FeedService.generate_test_feed
generate_test_feed(rule_id, now) ==
    test_entries([title |-> <<"TG Forwarder RSS - Rule ", ToString(rule_id), " (test)">>,
                  entries |-> <<>>],
                 1, rule_id, now)

\* ---- the inputs of the feed specification
\* Longest content, in characters of FeedChars.
MaxLen == 3
\* Longest media list of the enclosure entries.
MaxMedia == 2
\* Longest entry list.
MaxEntries == 2

\* "P" stands for a raw <p></p> typed in the message, "U" for the URL of the
\* entry's first image written out in the text.
FeedChars == {"a", " ", "\n", "P", "U"}

ExpandChar(c) ==
    CASE c = "P" -> <<"<p>", "</p>">>
      [] c = "U" -> <<UrlText(full_media_url(7, "a.jpg"))>>
      [] OTHER -> <<c>>

FeedContents ==
    {Flatten([k \in 1..Len(c) |-> ExpandChar(c[k])]) : c \in SeqsUpTo(FeedChars, MaxLen)}

MediaTypes == {"image/jpeg", "video/mp4", "audio/mpeg", "application/pdf", Missing}

AllMedia ==
    {m \in [url : MediaUrls, type : MediaTypes, size : {"5", Missing}, pathFault : BOOLEAN] :
        m.pathFault => m.type = "image/jpeg"}

Medium(url, type, pathFault) ==
    [url |-> url, type |-> type, size |-> "5", pathFault |-> pathFault]

ImageA == Medium(<<"store", "a.jpg">>, "image/jpeg", FALSE)
ImageAFault == Medium(<<"store", "a.jpg">>, "image/jpeg", TRUE)
VideoB == Medium(<<"b.mp4">>, "video/mp4", FALSE)
AudioB == Medium(<<"b.mp4">>, "audio/mpeg", FALSE)
FileB == Medium(<<"b.mp4">>, "application/pdf", FALSE)

BodyMedia ==
    {<<>>, <<ImageA>>, <<ImageAFault>>, <<VideoB>>, <<AudioB>>, <<FileB>>,
     <<ImageAFault, VideoB>>}

Links ==
    {<<>>, <<"https://", "t.me/", "chan", "/", "1">>, <<"https://", "example.com", "/", "x">>}

BaseEntry ==
    [id |-> "e1", message_id |-> "m1", content |-> <<"a">>, media |-> <<>>,
     published |-> "2024-01-01T00:00:00+00:00", author |-> "bob",
     link |-> <<"https://", "t.me/", "chan", "/", "1">>, rule_id |-> 7,
     faultAt |-> "none", mdFault |-> "none"]

\* Entries that vary the text, the embedded media and the markdown fault.
BodyEntries ==
    {[BaseEntry EXCEPT !.content = c, !.media = m, !.mdFault = f] :
        c \in FeedContents, m \in BodyMedia, f \in {"none", "convert"}}

\* Entries that vary the media list.
EnclosureEntries ==
    {[BaseEntry EXCEPT !.content = c, !.media = m] :
        c \in {<<>>, <<"a">>}, m \in SeqsUpTo(AllMedia, MaxMedia)}

\* Entries that vary the timestamp, the metadata and the faulting step.
MetaEntries ==
    {[BaseEntry EXCEPT !.published = p, !.faultAt = f, !.media = m] :
        p \in PublishedStrings, f \in FaultSteps \cup {"none"}, m \in {<<>>, <<ImageA>>}}
    \cup {[BaseEntry EXCEPT !.id = i, !.author = a, !.link = l] :
        i \in {"e1", ""}, a \in {"bob", ""}, l \in Links}

\* The entries the lists of several entries are made of.
ListEntries ==
    {[BaseEntry EXCEPT !.content = c, !.media = m, !.faultAt = f] :
        c \in {<<>>, <<"a">>}, m \in {<<>>, <<ImageA>>},
        f \in {"none", "id", "media", "timestamp"}}
    \cup {[BaseEntry EXCEPT !.media = <<Medium(<<"b.mp4">>, Missing, FALSE)>>]}

EntryLists ==
    SeqsUpTo(ListEntries, MaxEntries)
    \cup {<<e>> : e \in BodyEntries \cup EnclosureEntries \cup MetaEntries}

InitFeed ==
    /\ ChainIdle
    /\ TitleIdle
    /\ RenderIdle
    /\ fPc = "start"
    /\ fRule \in RuleIds
    /\ clock = 100
    /\ fIdx = 0
    /\ fg = [title |-> <<>>, entries |-> <<>>]
    /\ \/ fCall = "entries" /\ fEntries \in EntryLists
       \/ fCall = "test" /\ fEntries = <<>>

\* generate_feed_from_entries, lines 128-146: the feed and its header.
feed_start ==
    /\ fPc = "start" /\ fCall = "entries"
    /\ fg' = [title |-> feed_title(fRule, fEntries), entries |-> <<>>]
    /\ fIdx' = 1
    /\ fPc' = "loop"
    /\ UNCHANGED <<fCall, fRule, fEntries, clock, chainVars, titleVars, renderVars>>

\* generate_feed_from_entries, lines 149-327: one iteration of the loop.
feed_entry ==
    /\ fPc = "loop" /\ fIdx <= Len(fEntries)
    /\ LET r == build_entry(fEntries[fIdx], fIdx, clock)
       IN  /\ fg' = add_entry(fg, r.fe)
           /\ fIdx' = next_index(fIdx, r.faulted, Len(fEntries))
    /\ UNCHANGED <<fPc, fCall, fRule, fEntries, clock, chainVars, titleVars, renderVars>>

\* generate_feed_from_entries, line 329
feed_return ==
    /\ fPc = "loop" /\ fIdx > Len(fEntries)
    /\ fPc' = "returned"
    /\ UNCHANGED <<fCall, fRule, fEntries, fIdx, fg, clock, chainVars, titleVars, renderVars>>

\* One call of generate_test_feed.
test_feed_call ==
    /\ fPc = "start" /\ fCall = "test"
    /\ LET r == generate_test_feed(fRule, clock)
       IN  /\ fg' = r.fg
           /\ fPc' = IF r.raised THEN "raised" ELSE "returned"
    /\ UNCHANGED <<fCall, fRule, fEntries, fIdx, clock, chainVars, titleVars, renderVars>>

NextFeed == feed_start \/ feed_entry \/ feed_return \/ test_feed_call

SpecFeed == InitFeed /\ [][NextFeed]_vars

\* FeedService.generate_feed_from_entries as one function: the loop from
\* entry i on.
RECURSIVE feed_loop(_, _, _, _)
feed_loop(feed, entries, i, now) ==
    IF i > Len(entries) THEN feed
    ELSE LET r == build_entry(entries[i], i, now)
         IN  feed_loop(add_entry(feed, r.fe), entries,
                       next_index(i, r.faulted, Len(entries)), now)

generate_feed_from_entries(rule_id, entries, now) ==
    feed_loop([title |-> feed_title(rule_id, entries), entries |-> <<>>], entries, 1, now)

\* ---- what the claims below speak of
Faulted(k) == build_entry(fEntries[k], k, clock).faulted

FeedReturned == fCall = "entries" /\ fPc = "returned"

\* The FeedEntry objects of the feed that were made for input entry k.
EntriesFor(k) == {j \in 1..Len(fg.entries) : fg.entries[j].src = k}

\* ------------------------------------------------------------------------
\* C3: an entry whose construction faults at any step is skipped: the
\* returned feed holds no entry object for it, and the number of entries of
\* the feed is the number of input entries built without fault.
\* ------------------------------------------------------------------------
C3_FaultedEntriesSkipped ==
    FeedReturned =>
        /\ \A k \in 1..Len(fEntries) : Faulted(k) => EntriesFor(k) = {}
        /\ Len(fg.entries) = Cardinality({k \in 1..Len(fEntries) : ~Faulted(k)})

Alone(e) == generate_feed_from_entries(fRule, <<e>>, clock).entries[1]

\* ------------------------------------------------------------------------
\* C4: a fault while building one entry never aborts the call and never
\* changes what is produced for another entry: the loop reaches every later
\* entry, the feed is returned, and each non-faulting entry's title, body
\* and enclosures are those of the feed built from that entry alone.
\* ------------------------------------------------------------------------
C4_FaultsIsolated ==
    /\ fCall = "entries" => fPc # "raised"
    /\ (fCall = "entries" /\ fPc = "loop") =>
          \A k \in 1..(fIdx - 1) : EntriesFor(k) # {}
    /\ FeedReturned =>
          /\ fIdx = Len(fEntries) + 1
          /\ \A k \in 1..Len(fEntries) :
                ~Faulted(k) =>
                    /\ Cardinality(EntriesFor(k)) = 1
                    /\ \A j \in EntriesFor(k) :
                          /\ fg.entries[j].title = Alone(fEntries[k]).title
                          /\ fg.entries[j].content = Alone(fEntries[k]).content
                          /\ fg.entries[j].enclosures = Alone(fEntries[k]).enclosures

\* A feed of two entries was returned whose first entry faulted in the media
\* step and whose second entry was built with its body and its enclosure.
C4_Witness ==
    /\ FeedReturned /\ Len(fEntries) = 2
    /\ fEntries[1].faultAt = "media" /\ Faulted(1) /\ ~Faulted(2)
    /\ \E j \in EntriesFor(2) :
          /\ fg.entries[j].content # <<>>
          /\ Len(fg.entries[j].enclosures) = 1

IsPlaceholderFeed(feed) ==
    /\ Len(feed.entries) >= 3
    /\ \A j \in 1..Len(feed.entries) :
          /\ \E n \in 1..Len(feed.entries) :
                feed.entries[j].id = <<"test-" \o ToString(fRule) \o "-" \o ToString(n)>>
          /\ feed.entries[j].published # <<>>
    /\ \A j \in 1..(Len(feed.entries) - 1) :
          feed.entries[j].published[1].t = feed.entries[j + 1].published[1].t + 1

\* ------------------------------------------------------------------------
\* C5: building a feed from an empty entry list gives a synthetic feed of
\* at least 3 placeholder entries with ids test-<ruleId>-<n> and published
\* times one hour apart, most recent first; a feed with no entries is never
\* returned.
\* ------------------------------------------------------------------------
C5_EmptyListGivesPlaceholders ==
    (fEntries = <<>> /\ fPc \notin {"start", "loop"}) =>
        /\ fPc = "returned"
        /\ IsPlaceholderFeed(fg)

\* ------------------------------------------------------------------------
\* C6: the body written to the content field of an entry is never empty,
\* whatever the entry's content and media.
\* ------------------------------------------------------------------------
C6_BodyNonEmpty ==
    fCall = "entries" =>
        \A j \in 1..Len(fg.entries) :
            fg.entries[j].content # <<>> => fg.entries[j].content[1] # <<>>

Images(e) ==
    {k \in 1..Len(e.media) : e.media[k].type # Missing /\ MediaKind(e.media[k].type) = "image"}

ImageEmbeds(body, u) == {k \in 1..Len(body) : body[k] \in {Img3(u), Img7(u)}}

\* ------------------------------------------------------------------------
\* C7: for an entry with exactly one image medium the final body holds
\* exactly one image embed of that medium's URL, and the re-scan pass
\* applied again to that body adds nothing.
\* ------------------------------------------------------------------------
C7_OneImageOneEmbed ==
    fCall = "entries" =>
        \A j \in 1..Len(fg.entries) :
            LET e == fEntries[fg.entries[j].src]
                body == fg.entries[j].content[1]
            IN  (fg.entries[j].content # <<>> /\ Cardinality(Images(e)) = 1) =>
                    \A k \in Images(e) :
                        LET u == full_media_url(e.rule_id, media_filename(e.media[k].url))
                        IN  /\ Cardinality(ImageEmbeds(body, u)) = 1
                            /\ attach_media(body, <<>>, e.media, e.rule_id).content = body

ExpectedEnclosure(e, k) ==
    [url |-> full_media_url(e.rule_id, media_filename(e.media[k].url)),
     length |-> IF e.media[k].size = Missing THEN "0" ELSE e.media[k].size,
     type |-> IF e.media[k].type = Missing THEN "application/octet-stream"
              ELSE e.media[k].type]

\* ------------------------------------------------------------------------
\* C8: every entry gets one enclosure per media item, in media order, also
\* for an item whose size or type is unknown: length "0" for an unknown
\* size, type application/octet-stream for an unknown type.
\* ------------------------------------------------------------------------
C8_OneEnclosurePerItem ==
    FeedReturned =>
        \A k \in 1..Len(fEntries) :
            fEntries[k].faultAt = "none" =>
                \E j \in EntriesFor(k) :
                    fg.entries[j].enclosures =
                        [i \in 1..Len(fEntries[k].media) |-> ExpectedEnclosure(fEntries[k], i)]

\* ------------------------------------------------------------------------
\* C9: the published time of a built entry is the instant entry.published
\* denotes when that string is valid ISO-8601, and the current time when it
\* does not parse; the timestamp step never drops the entry.
\* ------------------------------------------------------------------------
C9_PublishedRoundTrip ==
    FeedReturned =>
        \A k \in 1..Len(fEntries) :
            ~Faulted(k) =>
                \E j \in EntriesFor(k) :
                    LET p == fromisoformat(fEntries[k].published)
                    IN  /\ fg.entries[j].published # <<>>
                        /\ fg.entries[j].published[1].t = (IF p.ok THEN p.t ELSE clock)

\* ========================================================================
\* The specification of convert_markdown_to_html
\* ========================================================================
\* Longest text argument, in characters of RenderChars.
MaxText == 3

RenderChars == {"a", " ", "\n", "#"}

RenderTexts == SeqsUpTo(RenderChars, MaxText)

InitRender ==
    /\ ChainIdle
    /\ TitleIdle
    /\ FeedIdle
    /\ rPc = "call"
    /\ rText \in RenderTexts
    /\ rFault \in MdFaults
    /\ rOut = <<>>

\* One call of FeedService.convert_markdown_to_html, lines 351-388.
convert_call ==
    /\ rPc = "call"
    /\ rOut' = convert_markdown_to_html(rText, rFault)
    /\ rPc' = "returned"
    /\ UNCHANGED <<rText, rFault, chainVars, titleVars, feedVars>>

NextRender == convert_call

SpecRender == InitRender /\ [][NextRender]_vars

\* The call took the except branch of line 378.
FellBack == rPc = "returned" /\ rText # <<>> /\ rFault # "none"

\* What is left of the preprocessing of lines 360-369 in a rendering: the
\* sentinel, the backslash of an escaped heading line, or spaces that the
\* text did not have.
Spaces(s) == Cardinality({k \in 1..Len(s) : s[k] = " "})

HasLeftover(text, html) ==
    \/ \E k \in 1..Len(html) : html[k] \in {Sentinel, "\\"}
    \/ Spaces(html) > Spaces(text)

\* ------------------------------------------------------------------------
\* C11: whenever the primary conversion faults, during the preprocessing or
\* inside the converter, convert_markdown_to_html returns the fallback
\* rendering of the text it was given (runs of two or more line breaks as
\* </p><p>, single line breaks as <br>, the whole in one <p>...</p>), and
\* the output holds no sentinel, heading escape or padding spaces of the
\* preprocessing.
\* ------------------------------------------------------------------------
C11_FallbackOfGivenText ==
    FellBack =>
        /\ rOut = <<"<p>">>
                   \o replace_char(sub_blank_runs(rText, <<"</p>", "<p>">>), "\n", <<"<br>">>)
                   \o <<"</p>">>
        /\ ~HasLeftover(rText, rOut)

====
